---- MODULE Spec2Model ----
(***************************************************************************)
(* A model of largo: the build event stream (BuildOutput over an Engine    *)
(* and its EngineOutput line classifier) and the scoped paths of typedir.  *)
(***************************************************************************)
EXTENDS Integers, Sequences, FiniteSets, TLC

(***************************************************************************)
(* Bounds                                                                  *)
(***************************************************************************)
\* longest line the engine writes
MaxLineLen == 3
\* number of lines the engine writes to its standard output
MaxLines == 2
\* number of Engine::run attempts explored
MaxSpawns == 2
\* number of polls explored after the stream has returned end-of-stream
MaxEndPolls == 2
\* number of borrowed path extensions made in one scope
MaxExtends == 4
\* largest scalar (i32) value merged
MaxScalar == 2
\* longest Vec merged
MaxVecLen == 2
\* merges applied in a row to one value
MaxMerges == 2
\* longest cache marker file, in words
MaxTagLen == 3
\* longest option field name, in characters
MaxNameLen == 3
\* most dependencies in a manifest
MaxDeps == 2
\* deepest current directory, in components below the filesystem root
MaxDepth == 3

(***************************************************************************)
(* Engine output lines                                                     *)
(***************************************************************************)
\* the characters a line is made of: those of the marker "! "; a line of them
\* that does not begin with the marker is an ordinary line
Chars == {"!", " "}

Lines == UNION {[1..n -> Chars] : n \in 0..MaxLineLen}

\* str::starts_with
StartsWith(line, prefix) ==
    /\ Len(line) >= Len(prefix)
    /\ SubSeq(line, 1, Len(prefix)) = prefix

\* String::split_off(at): the tail [at, len)
SplitOff(line, at) == SubSeq(line, at + 1, Len(line))

\* the literal "! "
ErrorMarker == <<"!", " ">>

NoInfo == [kind |-> "None"]

\* EngineInfo::Error { line, msg }
EngineError(linum, msg) == [kind |-> "Error", line |-> linum, msg |-> msg]

Classify_AnyBang(line) ==
    IF StartsWith(line, <<"!">>)
    THEN EngineError(0, SplitOff(line, 2))
    ELSE NoInfo

\* the classification in EngineOutput::poll_next
Classify(line) ==
    IF StartsWith(line, ErrorMarker)
    THEN EngineError(0, SplitOff(line, 2))
    ELSE NoInfo

(***************************************************************************)
(* State                                                                   *)
(***************************************************************************)
VARIABLES
    state,      \* BuildOutput.state
    verbosity,  \* BuildCtx.verbosity
    spawns,     \* number of calls of Engine::run
    child,      \* the engine subprocess: "none", "running", "closed"
    pipe,       \* the child's standard output not yet read, line by line
    written,    \* everything the child has written so far, line by line
    classified, \* for each delivered line, the line and what it classified to
    out,        \* items the stream has yielded so far
    last,       \* what the last poll returned: "None", "Item", "Pending", "End"
    woken,      \* the waker was signalled since the last poll began
    panicked,   \* the polling task has panicked
    endPolls,   \* polls after end-of-stream
    root,       \* the path buffer's value before any borrowed extension
    path,       \* the std::path::PathBuf every PathRef of the chain points at
    refs,       \* the live PathRefs, oldest first: node and link segment
    simple,     \* every link pushed so far was one normal component
    extends,    \* number of borrowed extensions made so far
    unwinding,  \* an error is propagating out of the enclosing scope
    onode,      \* the node an owned PathBuf is typed to
    opath,      \* the owned PathBuf's std::path::PathBuf
    otrail,     \* the owned extensions made so far: parent, value, link, child
    okept,      \* the clones of the owned PathBuf kept by the caller
    mtype,      \* the type implementing Merge that is exercised
    xs,         \* a, then a after each merge with b
    xops,       \* the merges applied to a so far
    ys,         \* b, then b after each merge with a
    yops,       \* the merges applied to b so far
    porig,      \* a Profiles map as it was constructed
    pmap,       \* that map while it is owned by the caller, None once moved
    psel,       \* the selections made on it: name asked for, what came back
    bprofile,   \* BuildBuilder.profile, the caller's override
    bconf,      \* the global LargoConfig
    bmanifest,  \* the project manifest as written
    bstage,     \* how far the build invocation has come
    bname,      \* profile_name, once chosen
    bctx,       \* BuildBuilderUnpacked, once resolved
    berr,       \* the error returned to the caller
    bdisk,      \* what the invocation has created on disk
    cfs0,       \* the directories that exist when clean is invoked
    cmarker,    \* the cache marker file of the target directory: its state or contents
    cprofile,   \* the profile named on the command line, if any
    cfs,        \* the directories that exist now
    cchecked,   \* the marker's signature was compared and matched
    chanded,    \* the path handed to remove_dir_all, if any
    cres,       \* what clean returned: "none" yet, "ok", "err"
    fident,     \* the name of an option field, character by character
    frename,    \* the name given by a rename attribute, if any
    fconvention,\* the case convention of the options struct
    fflag,      \* the flag name the derive emitted for the field, if it has yet
    gsystem,    \* the system settings of the manifest: TeX engine and TeX format
    gsettings,  \* the resolved project settings
    gprofile,   \* the name of the profile being built
    gdeps,      \* the dependencies of the manifest, in iteration order
    gstage,     \* "Unpacked", then "Built" or "Panicked"
    gcmd,       \* the command of the engine, once built
    wcwd,       \* the current directory RootDir::find starts from
    wfiles,     \* the manifest files that exist
    wpath,      \* the path buffer of the search
    wres        \* the result of the search, once it returned

streamVars == <<state, verbosity, spawns, child, pipe, written, classified,
                out, last, woken, panicked, endPolls>>

pathVars == <<root, path, refs, simple, extends, unwinding>>

ownedVars == <<onode, opath, otrail, okept>>

mergeVars == <<mtype, xs, xops, ys, yops>>

selectVars == <<porig, pmap, psel>>

builderVars == <<bprofile, bconf, bmanifest, bstage, bname, bctx, berr, bdisk>>

cleanVars == <<cfs0, cmarker, cprofile, cfs, cchecked, chanded, cres>>

flagVars == <<fident, frename, fconvention, fflag>>

commandVars == <<gsystem, gsettings, gprofile, gdeps, gstage, gcmd>>

findVars == <<wcwd, wfiles, wpath, wres>>

vars == <<streamVars, pathVars, ownedVars, mergeVars, selectVars,
    builderVars, cleanVars, flagVars, commandVars, findVars>>

\* what the actions of one component leave alone
notStream == <<pathVars, ownedVars, mergeVars, selectVars,
    builderVars, cleanVars, flagVars, commandVars, findVars>>
notPath == <<streamVars, ownedVars, mergeVars, selectVars,
    builderVars, cleanVars, flagVars, commandVars, findVars>>
notOwned == <<streamVars, pathVars, mergeVars, selectVars,
    builderVars, cleanVars, flagVars, commandVars, findVars>>
notMerge == <<streamVars, pathVars, ownedVars, selectVars,
    builderVars, cleanVars, flagVars, commandVars, findVars>>
notSelect == <<streamVars, pathVars, ownedVars, mergeVars,
    builderVars, cleanVars, flagVars, commandVars, findVars>>
notBuilder == <<streamVars, pathVars, ownedVars, mergeVars,
    selectVars, cleanVars, flagVars, commandVars, findVars>>
notClean == <<streamVars, pathVars, ownedVars, mergeVars,
    selectVars, builderVars, flagVars, commandVars, findVars>>
notFlag == <<streamVars, pathVars, ownedVars, mergeVars,
    selectVars, builderVars, cleanVars, commandVars, findVars>>
notCommand == <<streamVars, pathVars, ownedVars, mergeVars,
    selectVars, builderVars, cleanVars, flagVars, findVars>>
notFind == <<streamVars, pathVars, ownedVars, mergeVars,
    selectVars, builderVars, cleanVars, flagVars, commandVars>>

\* LargoInfo and the failure item
Compiling == [kind |-> "Compiling"]
Running == [kind |-> "Running"]
Finished == [kind |-> "Finished"]
Failure == [kind |-> "Failure"]

\* a line of output, or bytes that do not decode (the line source yields Err)
GoodLine(l) == [ok |-> TRUE, text |-> l]
BadLine == [ok |-> FALSE, text |-> <<>>]

InitStream ==
    /\ state = "Init"
    /\ verbosity \in {"Silent", "Noisy"}
    /\ spawns = 0
    /\ child = "none"
    /\ pipe = <<>>
    /\ written = <<>>
    /\ classified = <<>>
    /\ out = <<>>
    /\ last = "None"
    /\ woken = FALSE
    /\ panicked = FALSE
    /\ endPolls = 0

(***************************************************************************)
(* The engine subprocess                                                   *)
(***************************************************************************)
EngineWrite ==
    /\ child = "running"
    /\ Len(written) < MaxLines
    /\ \E l \in Lines :
         /\ pipe' = Append(pipe, GoodLine(l))
         /\ written' = Append(written, GoodLine(l))
    /\ UNCHANGED <<state, verbosity, spawns, child, classified,
                   out, last, woken, panicked, endPolls>>
    /\ UNCHANGED notStream

\* the lines no longer than the marker: "! " itself and unmarked lines
ShortLines == {l \in Lines : Len(l) <= Len(ErrorMarker)}

\* EngineWrite, for the runs that do not depend on what a line says
EngineWriteShort ==
    /\ child = "running"
    /\ Len(written) < MaxLines
    /\ \E l \in ShortLines :
         /\ pipe' = Append(pipe, GoodLine(l))
         /\ written' = Append(written, GoodLine(l))
    /\ UNCHANGED <<state, verbosity, spawns, child, classified,
                   out, last, woken, panicked, endPolls>>
    /\ UNCHANGED notStream

EngineWriteInvalid ==
    /\ child = "running"
    /\ Len(written) < MaxLines
    /\ pipe' = Append(pipe, BadLine)
    /\ written' = Append(written, BadLine)
    /\ UNCHANGED <<state, verbosity, spawns, child, classified,
                   out, last, woken, panicked, endPolls>>
    /\ UNCHANGED notStream

EngineClose ==
    /\ child = "running"
    /\ child' = "closed"
    /\ UNCHANGED <<state, verbosity, spawns, pipe, written, classified,
                   out, last, woken, panicked, endPolls>>
    /\ UNCHANGED notStream

(***************************************************************************)
(* BuildOutput::poll_next, one action per arm                              *)
(***************************************************************************)
\* the consumer polls first, after an item, and after a wake-up
CanPoll == ~panicked /\ (last # "Pending" \/ woken)

Yield(item) ==
    /\ out' = Append(out, item)
    /\ last' = "Item"
    /\ woken' = FALSE

PollInit_Stay ==
    /\ CanPoll
    /\ state = "Init"
    /\ Yield(Compiling)
    /\ UNCHANGED <<state, verbosity, spawns, child, pipe, written,
                   classified, panicked, endPolls>>
    /\ UNCHANGED notStream

PollInit ==
    /\ CanPoll
    /\ state = "Init"
    /\ state' = "StartEngine"
    /\ Yield(Compiling)
    /\ UNCHANGED <<verbosity, spawns, child, pipe, written, classified,
                   panicked, endPolls>>
    /\ UNCHANGED notStream

PollStartEngineOk ==
    /\ CanPoll
    /\ state = "StartEngine"
    /\ spawns < MaxSpawns
    /\ spawns' = spawns + 1
    /\ child' = "running"
    /\ state' = "EngineRunning"
    /\ Yield(Running)
    /\ UNCHANGED <<verbosity, pipe, written, classified, panicked, endPolls>>
    /\ UNCHANGED notStream

PollStartEngineErr ==
    /\ CanPoll
    /\ state = "StartEngine"
    /\ spawns < MaxSpawns
    /\ spawns' = spawns + 1
    /\ Yield(Failure)
    /\ UNCHANGED <<state, verbosity, child, pipe, written, classified,
                   panicked, endPolls>>
    /\ UNCHANGED notStream

TakeLine_Peek ==
    /\ pipe # <<>>
    /\ Head(pipe).ok
    /\ pipe' = pipe
    /\ classified' = Append(classified,
           [text |-> Head(pipe).text, info |-> Classify(Head(pipe).text)])

\* the line source delivers a line
TakeLine ==
    /\ pipe # <<>>
    /\ Head(pipe).ok
    /\ pipe' = Tail(pipe)
    /\ classified' = Append(classified,
           [text |-> Head(pipe).text, info |-> Classify(Head(pipe).text)])

PollEngineLineError ==
    /\ CanPoll
    /\ state = "EngineRunning"
    /\ TakeLine
    /\ Classify(Head(pipe).text) # NoInfo
    /\ Yield(Classify(Head(pipe).text))
    /\ UNCHANGED <<state, verbosity, spawns, child, written, panicked, endPolls>>
    /\ UNCHANGED notStream

PollEngineLineOther ==
    /\ CanPoll
    /\ state = "EngineRunning"
    /\ TakeLine
    /\ Classify(Head(pipe).text) = NoInfo
    /\ woken' = TRUE
    /\ last' = "Pending"
    /\ UNCHANGED <<state, verbosity, spawns, child, written, out, panicked, endPolls>>
    /\ UNCHANGED notStream

PollEngineReadErr ==
    /\ CanPoll
    /\ state = "EngineRunning"
    /\ pipe # <<>>
    /\ ~Head(pipe).ok
    /\ panicked' = TRUE
    /\ pipe' = Tail(pipe)
    /\ UNCHANGED <<state, verbosity, spawns, child, written, classified,
                   out, last, woken, endPolls>>
    /\ UNCHANGED notStream

PollEnginePending ==
    /\ CanPoll
    /\ state = "EngineRunning"
    /\ pipe = <<>>
    /\ child = "running"
    /\ woken' = TRUE
    /\ last' = "Pending"
    /\ UNCHANGED <<state, verbosity, spawns, child, pipe, written,
                   classified, out, panicked, endPolls>>
    /\ UNCHANGED notStream

PollFinished_Stay ==
    /\ UNCHANGED state
    /\ Yield(Finished)

\* the Finished arm
PollFinished ==
    /\ state' = "Exit"
    /\ Yield(Finished)

PollEngineEnd_NoRepoll ==
    /\ CanPoll
    /\ state = "EngineRunning"
    /\ pipe = <<>>
    /\ child = "closed"
    /\ state' = "Finished"
    /\ last' = "Pending"
    /\ woken' = FALSE
    /\ UNCHANGED <<verbosity, spawns, child, pipe, written, classified,
                   out, panicked, endPolls>>
    /\ UNCHANGED notStream

\* the line source has ended: on to Finished, polled again at once
PollEngineEnd ==
    /\ CanPoll
    /\ state = "EngineRunning"
    /\ pipe = <<>>
    /\ child = "closed"
    /\ PollFinished
    /\ UNCHANGED <<verbosity, spawns, child, pipe, written, classified,
                   panicked, endPolls>>
    /\ UNCHANGED notStream

PollExit ==
    /\ CanPoll
    /\ state = "Exit"
    /\ endPolls < MaxEndPolls
    /\ endPolls' = endPolls + 1
    /\ last' = "End"
    /\ woken' = FALSE
    /\ UNCHANGED <<state, verbosity, spawns, child, pipe, written,
                   classified, out, panicked>>
    /\ UNCHANGED notStream

Poll ==
    \/ PollInit
    \/ PollStartEngineOk
    \/ PollStartEngineErr
    \/ PollEngineLineError
    \/ PollEngineLineOther
    \/ PollEngineReadErr
    \/ PollEnginePending
    \/ PollEngineEnd
    \/ PollExit

(***************************************************************************)
(* typedir: std::path::PathBuf, the directory schema, PathRef              *)
(***************************************************************************)
\* A path is the sequence of its normal components below the filesystem
\* root; a link segment is a relative or an absolute path.
Rel(comps) == [abs |-> FALSE, comps |-> comps]
Abs(comps) == [abs |-> TRUE, comps |-> comps]

\* std::path::PathBuf::push: an absolute argument replaces the path
Push(p, seg) == IF seg.abs THEN seg.comps ELSE p \o seg.comps

\* std::path::PathBuf::pop: truncate to the parent, if there is one
Pop(p) == IF p = <<>> THEN p ELSE SubSeq(p, 1, Len(p) - 1)

\* the schema of dirs.rs: parent, child, and the fixed segment of the link
FixedEdges == {
    [parent |-> "RootDir", child |-> "ProjectConfigFile", seg |-> Rel(<<"largo.toml">>)],
    [parent |-> "RootDir", child |-> "LockFile", seg |-> Rel(<<"largo.lock">>)],
    [parent |-> "RootDir", child |-> "SrcDir", seg |-> Rel(<<"src">>)],
    [parent |-> "RootDir", child |-> "TargetDir", seg |-> Rel(<<"target">>)],
    [parent |-> "RootDir", child |-> "GitDir", seg |-> Rel(<<".git">>)],
    [parent |-> "RootDir", child |-> "Gitignore", seg |-> Rel(<<".gitignore">>)],
    [parent |-> "ProfileTargetDir", child |-> "DepsDir", seg |-> Rel(<<"deps">>)],
    [parent |-> "ProfileTargetDir", child |-> "BuildDir", seg |-> Rel(<<"build">>)],
    [parent |-> "HomeDir", child |-> "LargoConfigDir", seg |-> Rel(<<".largo">>)],
    [parent |-> "LargoConfigDir", child |-> "LargoConfigFile", seg |-> Rel(<<"config.toml">>)] }

\* the links computed from a caller's value (forall s: ..., s => node ...)
ParamEdges == {
    [parent |-> "SrcDir", child |-> "SrcFile"],
    [parent |-> "TargetDir", child |-> "ProfileTargetDir"] }

\* values a caller can pass to a parametric link: "dev", "a/b", "", "/x"
LinkValues == {Rel(<<"dev">>), Rel(<<"a", "b">>), Rel(<<>>), Abs(<<"x">>)}

\* the edges out of a node, each with the segment its link yields
Links(node) ==
    {[child |-> e.child, seg |-> e.seg] : e \in {f \in FixedEdges : f.parent = node}}
    \cup {[child |-> e.child, seg |-> v] :
            e \in {f \in ParamEdges : f.parent = node}, v \in LinkValues}

\* the nodes a PathBuf is constructed on, and the values it starts with
BaseNodes == {"RootDir", "HomeDir"}
BasePaths == {<<>>, <<"my">>, <<"my", "root">>}

IsSimple(seg) == ~seg.abs /\ Len(seg.comps) = 1

\* the node of the innermost live path
CurNode(base) == IF refs = <<>> THEN base ELSE refs[Len(refs)].node

InitPath ==
    /\ root \in BasePaths
    /\ path = root
    /\ refs = <<>>
    /\ simple = TRUE
    /\ extends = 0
    /\ unwinding = FALSE

\* Extend for &mut PathBuf / &mut PathRef: push the link, hand out a PathRef
ExtendRef ==
    /\ ~unwinding
    /\ extends < MaxExtends
    /\ extends' = extends + 1
    /\ \E base \in BaseNodes : \E l \in Links(CurNode(base)) :
         /\ refs = <<>> \/ base = "RootDir"
         /\ path' = Push(path, l.seg)
         /\ refs' = Append(refs, [node |-> l.child, seg |-> l.seg,
                                  from |-> path])
         /\ simple' = (simple /\ IsSimple(l.seg))
    /\ UNCHANGED <<root, unwinding>>
    /\ UNCHANGED notPath

\* Drop for PathRef: the innermost live PathRef goes out of scope
DropRef ==
    /\ refs # <<>>
    /\ path' = Pop(path)
    /\ refs' = SubSeq(refs, 1, Len(refs) - 1)
    /\ UNCHANGED <<root, simple, extends, unwinding>>
    /\ UNCHANGED notPath

\* an error is propagated (the ? operator): the scope is left early
PropagateError ==
    /\ ~unwinding
    /\ unwinding' = TRUE
    /\ UNCHANGED <<root, path, refs, simple, extends>>
    /\ UNCHANGED notPath

\* an owned PathBuf starts at a root node (PathBuf::new)
InitOwned ==
    /\ onode \in BaseNodes
    /\ opath \in BasePaths
    /\ otrail = <<>>
    /\ okept = {}

\* Extend for PathBuf<P>: consume the parent, push the link's segment
ExtendBuf ==
    /\ \E l \in Links(onode) :
         /\ opath' = Push(opath, l.seg)
         /\ onode' = l.child
         /\ otrail' = Append(otrail, [parent |-> onode, from |-> opath,
                                      seg |-> l.seg, child |-> l.child])
    /\ UNCHANGED okept
    /\ UNCHANGED notOwned

\* derive(Clone) for PathBuf: the caller keeps a copy (root_dir.clone())
CloneBuf ==
    /\ [node |-> onode, path |-> opath] \notin okept
    /\ okept' = okept \cup {[node |-> onode, path |-> opath]}
    /\ UNCHANGED <<onode, opath, otrail>>
    /\ UNCHANGED notOwned

(***************************************************************************)
(* merge: the Merge trait and its implementations                          *)
(***************************************************************************)
\* Option<T>: None is the empty sequence, Some(v) the sequence of v alone
None == <<>>
Some(v) == <<v>>
Opt(T) == {None} \cup {Some(v) : v \in T}

\* Merge for Option<T>
OptMergeLeft_Take(a, b) == IF a # None THEN None ELSE b

OptMergeLeft(a, b) == IF a # None THEN a ELSE b

OptMergeRight_KeepSelf(a, b) == IF a # None THEN a ELSE b

OptMergeRight(a, b) == IF b # None THEN b ELSE a

\* merge_basic_types, &str, and types derived with #[merge(replace)]
BasicMergeLeft_Replace(a, b) == b

BasicMergeLeft(a, b) == a

BasicMergeRight(a, b) == b

\* Merge for Vec<T>: both directions extend self with other
VecMergeLeft(a, b) == a \o b

VecMergeRight(a, b) == a \o b

\* derive(Merge) for struct S { a: i32, b: Option<i32> } of the tests
SMergeLeft(a, b) ==
    [a |-> BasicMergeLeft(a.a, b.a), b |-> OptMergeLeft(a.b, b.b)]

SMergeRight(a, b) ==
    [a |-> BasicMergeRight(a.a, b.a), b |-> OptMergeRight(a.b, b.b)]

\* derive(Merge) for ProjectSettings
ProjectSettingsMergeLeft(a, b) ==
    [output_format |-> OptMergeLeft(a.output_format, b.output_format),
     shell_escape |-> OptMergeLeft(a.shell_escape, b.shell_escape),
     synctex |-> OptMergeLeft(a.synctex, b.synctex)]

ProjectSettingsMergeRight(a, b) ==
    [output_format |-> OptMergeRight(a.output_format, b.output_format),
     shell_escape |-> OptMergeRight(a.shell_escape, b.shell_escape),
     synctex |-> OptMergeRight(a.synctex, b.synctex)]

\* derive(Merge) for Profile
ProfileMergeLeft(a, b) ==
    [project_settings |->
        ProjectSettingsMergeLeft(a.project_settings, b.project_settings)]

ProfileMergeRight(a, b) ==
    [project_settings |->
        ProjectSettingsMergeRight(a.project_settings, b.project_settings)]

\* derive(Merge) for Profiles(BTreeMap<ProfileName, Profile>), that is
\* Merge for BTreeMap<K, V>: a vacant key takes other's entry, an occupied
\* one merges the two values in the same direction
ProfilesMergeLeft(a, b) ==
    [k \in DOMAIN a \cup DOMAIN b |->
        IF k \notin DOMAIN a THEN b[k]
        ELSE IF k \in DOMAIN b THEN ProfileMergeLeft(a[k], b[k]) ELSE a[k]]

ProfilesMergeRight(a, b) ==
    [k \in DOMAIN a \cup DOMAIN b |->
        IF k \notin DOMAIN a THEN b[k]
        ELSE IF k \in DOMAIN b THEN ProfileMergeRight(a[k], b[k]) ELSE a[k]]

\* the values merged
Scalars == 1..MaxScalar
Vecs == UNION {[1..n -> Scalars] : n \in 0..MaxVecLen}
SValues == [a : Scalars, b : Opt(Scalars)]
OutputFormats == {"dvi", "ps", "pdf"}
ProjectSettingsValues ==
    [output_format : Opt(OutputFormats), shell_escape : Opt(BOOLEAN),
     synctex : Opt(BOOLEAN)]

\* Profile::default(), and the profiles written in manifests
DefaultProfile ==
    [project_settings |->
        [output_format |-> None, shell_escape |-> None, synctex |-> None]]
ManifestProfiles == {
    DefaultProfile,
    [project_settings |->
        [output_format |-> Some("dvi"), shell_escape |-> None,
         synctex |-> Some(TRUE)]],
    [project_settings |->
        [output_format |-> None, shell_escape |-> Some(FALSE),
         synctex |-> None]] }

\* DEV_PROFILE, RELEASE_PROFILE, and a profile name of the user's
ProfileNames == {"dev", "release", "custom"}
ProfilesValues ==
    UNION {[ks -> ManifestProfiles] : ks \in SUBSET ProfileNames}

MergeTypes == {"S", "Vec", "ProjectSettings", "Profiles"}

Values(t) ==
    CASE t = "S" -> SValues
      [] t = "Vec" -> Vecs
      [] t = "ProjectSettings" -> ProjectSettingsValues
      [] t = "Profiles" -> ProfilesValues

MergeLeft(t, a, b) ==
    CASE t = "S" -> SMergeLeft(a, b)
      [] t = "Vec" -> VecMergeLeft(a, b)
      [] t = "ProjectSettings" -> ProjectSettingsMergeLeft(a, b)
      [] t = "Profiles" -> ProfilesMergeLeft(a, b)

MergeRight(t, a, b) ==
    CASE t = "S" -> SMergeRight(a, b)
      [] t = "Vec" -> VecMergeRight(a, b)
      [] t = "ProjectSettings" -> ProjectSettingsMergeRight(a, b)
      [] t = "Profiles" -> ProfilesMergeRight(a, b)

InitMerge ==
    /\ mtype \in MergeTypes
    /\ \E a \in Values(mtype) : xs = <<a>>
    /\ \E b \in Values(mtype) : ys = <<b>>
    /\ xops = <<>>
    /\ yops = <<>>

\* a.merge_left(b), on a as it is now
XMergeLeft ==
    /\ Len(xops) < MaxMerges
    /\ xs' = Append(xs, MergeLeft(mtype, xs[Len(xs)], ys[1]))
    /\ xops' = Append(xops, "left")
    /\ UNCHANGED <<mtype, ys, yops>>
    /\ UNCHANGED notMerge

\* a.merge_right(b), on a as it is now
XMergeRight ==
    /\ Len(xops) < MaxMerges
    /\ xs' = Append(xs, MergeRight(mtype, xs[Len(xs)], ys[1]))
    /\ xops' = Append(xops, "right")
    /\ UNCHANGED <<mtype, ys, yops>>
    /\ UNCHANGED notMerge

\* b.merge_right(a), on a copy of b and with a as it was at first
YMergeRight ==
    /\ yops = <<>>
    /\ ys' = Append(ys, MergeRight(mtype, ys[1], xs[1]))
    /\ yops' = Append(yops, "right")
    /\ UNCHANGED <<mtype, xs, xops>>
    /\ UNCHANGED notMerge

(***************************************************************************)
(* Profiles::select_profile                                                *)
(***************************************************************************)
\* BTreeMap::remove on the map taken by value: the profile under the name
SelectProfile_OrDefault(profiles, name) ==
    IF name \in DOMAIN profiles THEN Some(profiles[name]) ELSE Some(DefaultProfile)

SelectProfile(profiles, name) ==
    IF name \in DOMAIN profiles THEN Some(profiles[name]) ELSE None

InitSelect ==
    /\ porig \in ProfilesValues
    /\ pmap = Some(porig)
    /\ psel = <<>>

\* select_profile(mut self, name) as if it borrowed the map
SelectStep_Borrow ==
    /\ pmap # None
    /\ \E name \in ProfileNames :
         /\ psel' = Append(psel, [name |-> name,
                                  result |-> SelectProfile(pmap[1], name)])
         /\ pmap' = Some([k \in DOMAIN pmap[1] \ {name} |-> pmap[1][k]])
    /\ UNCHANGED porig
    /\ UNCHANGED notSelect

\* select_profile(mut self, name): the map is moved into the call and
\* dropped when it returns
SelectStep ==
    /\ pmap # None
    /\ \E name \in ProfileNames :
         /\ psel' = Append(psel, [name |-> name,
                                  result |-> SelectProfile(pmap[1], name)])
         /\ pmap' = None
    /\ UNCHANGED porig
    /\ UNCHANGED notSelect

(***************************************************************************)
(* BuildBuilder::try_finish and BuildRunner::run                           *)
(***************************************************************************)
\* Profiles::standard()
StandardProfiles == [n \in {"dev", "release"} |-> DefaultProfile]

\* Option::unwrap_or_default on Option<Profiles>
UnwrapOrDefault(o) == IF o = None THEN [n \in {} |-> DefaultProfile] ELSE o[1]

\* toml::from_str into ProjectConfig: the keys ProjectConfig declares
ParseManifest(m) ==
    [profiles |-> m.profile, project_settings |-> m.settings,
     supported |-> m.supported]

\* self.profile.unwrap_or(self.conf.default_profile)
ChooseProfile_IgnoreOverride(override, default) == default

ChooseProfile(override, default) ==
    IF override # None THEN override[1] ELSE default

\* anyhow!("profile `{}` not found", profile_name)
NotFound(name) == [kind |-> "ProfileNotFound", name |-> name]

\* project_settings.merge_right(profile.project_settings)
ResolveSettings_Left(project, profile) ==
    ProjectSettingsMergeLeft(project, profile)

ResolveSettings(project, profile) ==
    ProjectSettingsMergeRight(project, profile)

\* the profiles the lookup is made in
\* (profiles.merge_left(Profiles::standard()))
LookupProfiles(project) ==
    ProfilesMergeLeft(UnwrapOrDefault(project.profiles), StandardProfiles)

\* target_dir.clone().extend(&profile_name).extend(()), below the root
BuildDirOf(name) ==
    Push(Push(Push(<<>>, Rel(<<"target">>)), Rel(<<name>>)), Rel(<<"build">>))

\* a builder over manifests with the given default-profile keys and settings
InitBuilderOver(defaults, settings) ==
    /\ bprofile \in Opt(ProfileNames)
    /\ bconf \in [default_profile : ProfileNames]
    /\ bmanifest \in [default_profile : defaults,
                      profile : Opt(ProfilesValues),
                      settings : settings,
                      supported : BOOLEAN]
    /\ bstage = "Builder"
    /\ bname = None
    /\ bctx = None
    /\ berr = None
    /\ bdisk = {}

\* a manifest either names no default profile or names "release"
InitBuilder == InitBuilderOver(Opt({"release"}), ProjectSettingsValues)

\* try_finish: try_finish_unpack, then into_runner
TryFinish ==
    /\ bstage = "Builder"
    /\ LET project == ParseManifest(bmanifest)
           profile_name == ChooseProfile(bprofile, bconf.default_profile)
           profile == SelectProfile(LookupProfiles(project), profile_name)
       IN  /\ bname' = Some(profile_name)
           /\ IF profile = None
              THEN /\ bstage' = "Failed"
                   /\ berr' = Some(NotFound(profile_name))
                   /\ bctx' = None
              ELSE IF ~project.supported
              THEN /\ bstage' = "Panicked"
                   /\ berr' = None
                   /\ bctx' = None
              ELSE /\ bstage' = "Runner"
                   /\ berr' = None
                   /\ bctx' = Some([profile_name |-> profile_name,
                                    project_settings |->
                                        ResolveSettings(project.project_settings,
                                                        profile[1].project_settings),
                                    build_dir |-> BuildDirOf(profile_name)])
    /\ UNCHANGED <<bprofile, bconf, bmanifest, bdisk>>
    /\ UNCHANGED notBuilder

\* the steps of prepare_build_environment that can fail, in order
PrepareSteps == <<"create_dir_all", "File::create", "write_start_file">>

\* what is on disk when the n-th step is the first to fail (n = 4: none did)
Created(n) ==
    (IF n > 1 THEN {"build_dir"} ELSE {}) \cup
    (IF n > 2 THEN {"start_file"} ELSE {})

\* run, with a failed preparation not stopping it
RunBuild_Proceed ==
    /\ bstage = "Runner"
    /\ \E tagged \in BOOLEAN : \E n \in 1..(Len(PrepareSteps) + 1) :
         /\ bdisk' = bdisk \cup Created(n)
                        \cup (IF tagged THEN {"CACHEDIR.TAG"} ELSE {})
         /\ bstage' = "Streaming"
         /\ berr' = IF n <= Len(PrepareSteps)
                    THEN Some([kind |-> "Io", name |-> PrepareSteps[n]])
                    ELSE None
    /\ UNCHANGED <<bprofile, bconf, bmanifest, bname, bctx>>
    /\ UNCHANGED notBuilder

\* BuildRunner::run: prepare_build_environment()?, then the BuildOutput.
\* The result of try_create_target_dir is dropped.
RunBuild ==
    /\ bstage = "Runner"
    /\ \E tagged \in BOOLEAN : \E n \in 1..(Len(PrepareSteps) + 1) :
         /\ bdisk' = bdisk \cup Created(n)
                        \cup (IF tagged THEN {"CACHEDIR.TAG"} ELSE {})
         /\ bstage' = IF n <= Len(PrepareSteps) THEN "Failed" ELSE "Streaming"
         /\ berr' = IF n <= Len(PrepareSteps)
                    THEN Some([kind |-> "Io", name |-> PrepareSteps[n]])
                    ELSE None
    /\ UNCHANGED <<bprofile, bconf, bmanifest, bname, bctx>>
    /\ UNCHANGED notBuilder

\* the BuildOutput exists, and is polled, once run has returned it
StreamPollInit == bstage = "Streaming" /\ PollInit

StreamStartEngineOk == bstage = "Streaming" /\ PollStartEngineOk

StreamStartEngineErr == bstage = "Streaming" /\ PollStartEngineErr

(***************************************************************************)
(* The clean subcommand                                                    *)
(***************************************************************************)
\* the project root, and the directories a run can meet, as the components
\* below the filesystem root: /proj, /proj/target, ..., and /x outside
ProjectRoot == <<"proj">>
TargetOf(r) == Push(r, Rel(<<"target">>))

\* the project with or without a target directory, what can stand below
\* the target directory, and the directory /x outside the project
Filesystems ==
    LET project == {ProjectRoot, Push(ProjectRoot, Rel(<<"src">>)), <<"x">>}
        contents ==
            {{}, {<<"dev">>}, {<<"a">>}, {<<"a">>, <<"a", "b">>},
             {<<"dev">>, <<"a">>}, {<<"dev">>, <<"a">>, <<"a", "b">>}}
    IN  {project}
        \cup {project \cup {TargetOf(ProjectRoot)}
                \cup {TargetOf(ProjectRoot) \o d : d \in c} : c \in contents}

\* CACHEDIR_TAG_SIGNATURE, word by word
Signature == <<"Signature:", "8a477f597d28d172789f06886806bc55">>

\* the marker file as read_to_string finds it: missing, unreadable, or a
\* file of some words
Markers ==
    LET words == {"Signature:", "8a477f597d28d172789f06886806bc55", "#"}
    IN  {[kind |-> "missing", contents |-> <<>>],
         [kind |-> "unreadable", contents |-> <<>>]}
        \cup {[kind |-> "file", contents |-> c] :
                c \in UNION {[1..n -> words] : n \in 0..MaxTagLen}}

\* match contents.get(0..sig.len()) { Some(s) if s == sig => ..: get gives
\* the first items if there are that many
SignatureMatches(contents) ==
    LET len == Len(Signature)
        prefix == IF Len(contents) >= len
                  THEN Some(SubSeq(contents, 1, len)) ELSE None
    IN  prefix = Some(Signature)

\* the names clap accepts for --profile: "dev", "a/b", "", "/x", ".."
CleanProfiles == LinkValues \cup {Rel(<<"..">>)}

IsPrefix(p, q) == Len(p) <= Len(q) /\ SubSeq(q, 1, Len(p)) = p

\* the directory a path names once the system has followed its components,
\* None if a component to go through does not exist
RECURSIVE Walk(_, _, _)
Walk(fs, at, rest) ==
    IF rest = <<>> THEN Some(at)
    ELSE IF at # <<>> /\ at \notin fs THEN None
    ELSE IF rest[1] = ".." THEN Walk(fs, Pop(at), Tail(rest))
    ELSE Walk(fs, Append(at, rest[1]), Tail(rest))

\* dirs::remove_dir_all: the tree below the directory goes, NotFound is Ok
RemoveDirAll(fs, p) ==
    LET d == Walk(fs, <<>>, p)
    IN  IF d = None \/ d[1] \notin fs THEN fs
        ELSE {q \in fs : ~IsPrefix(d[1], q)}

\* ProjectSubcommand::execute, the Clean arm
Clean ==
    /\ cres = "none"
    /\ LET build_dir == TargetOf(ProjectRoot)
           exists == build_dir \in cfs
           readable == cmarker.kind = "file"
           refused == exists
                      /\ (~readable \/ ~SignatureMatches(cmarker.contents))
           doomed == IF cprofile = None THEN build_dir
                     ELSE Push(build_dir, cprofile[1])
       IN  IF refused
           THEN /\ cres' = "err"
                /\ UNCHANGED <<cfs, cchecked, chanded>>
           ELSE /\ cchecked' = exists
                /\ chanded' = Some(doomed)
                /\ cfs' = RemoveDirAll(cfs, doomed)
                /\ cres' = "ok"
    /\ UNCHANGED <<cfs0, cmarker, cprofile>>
    /\ UNCHANGED notClean

(***************************************************************************)
(* Flag names of the derived Options                                       *)
(***************************************************************************)
\* the names of option fields: letters and underscores
FieldNames == UNION {[1..n -> {"a", "b", "_"}] : n \in 1..MaxNameLen}

\* .map(|c| if c == '_' { '_' } else { c })
MapChar(c) == IF c = "_" THEN "_" ELSE c

ToOneDashKebabCase(old) ==
    LET chained == <<"-">> \o old
    IN  [i \in 1..Len(chained) |-> MapChar(chained[i])]

ToTwoDashKebabCase(old) ==
    LET chained == <<"-">> \o <<"-">> \o old
    IN  [i \in 1..Len(chained) |-> MapChar(chained[i])]

\* emit_field: the name passed to ArgValue::set_cmd_arg, the rename or the
\* field's name converted as LoweringCtx::new chose by the convention
NewName(conv, ident, rename) ==
    IF rename # None THEN rename[1]
    ELSE IF conv = "OneDashKebabCase" THEN ToOneDashKebabCase(ident)
    ELSE ToTwoDashKebabCase(ident)

EmitField ==
    /\ fflag = None
    /\ fflag' = Some(NewName(fconvention, fident, frename))
    /\ UNCHANGED <<fident, frename, fconvention>>
    /\ UNCHANGED notFlag

(***************************************************************************)
(* The command of the engine                                               *)
(***************************************************************************)
\* TexEngine and TexFormat
SystemSettingsValues ==
    [tex_engine : {"Tex", "Pdftex", "Xetex", "Luatex"},
     tex_format : {"Tex", "Latex"}]

\* the dependencies of a manifest: by path, or by version
DepValues ==
    {[kind |-> "Path", path |-> <<"deps", "one">>, largo |-> FALSE],
     [kind |-> "Path", path |-> <<"deps", "two">>, largo |-> FALSE],
     [kind |-> "Version", path |-> <<>>, largo |-> FALSE]}
Dependencies == UNION {[1..n -> DepValues] : n \in 0..MaxDeps}

\* root_dir.clone().extend(()) to SrcDir, below the root
SrcDirOf == Push(<<>>, Rel(<<"src">>))

\* get_dependency_paths: the paths, or None where it reaches unimplemented!()
GetDependencyPaths(deps) ==
    IF \E i \in 1..Len(deps) : deps[i].kind # "Path" \/ deps[i].largo
    THEN None
    ELSE Some([i \in 1..Len(deps) |-> deps[i].path])

\* a search path value: paths as they are displayed, and separators
Entry(p) == [kind |-> "path", text |-> p]
Sep(c) == [kind |-> "sep", text |-> <<c>>]

RECURSIVE Join(_, _)
Join(paths, c) ==
    IF paths = <<>> THEN <<>>
    ELSE IF Len(paths) = 1 THEN <<Entry(paths[1])>>
    ELSE <<Entry(paths[1]), Sep(c)>> \o Join(Tail(paths), c)

\* the fields shell_escape and no_shell_escape of CommandLineOptions
ShellEscapeField ==
    <<"s", "h", "e", "l", "l", "_", "e", "s", "c", "a", "p", "e">>
NoShellEscapeField == <<"n", "o", "_">> \o ShellEscapeField

\* PdflatexBuilder::new, over Command::new(&conf.build.execs.pdflatex)
PdflatexBuilderNew ==
    [cmd |-> [program |-> "pdflatex", cwd |-> None,
              env |-> [TEXINPUTS |-> None, max_print_line |-> None],
              args |-> <<>>],
     texinputs |-> <<>>,
     cli_options |-> [interaction |-> Some(<<"nonstopmode">>),
                      shell_escape |-> FALSE,
                      no_shell_escape |-> FALSE,
                      synctex |-> None]]

\* engine_builder: None where it reaches unimplemented!()
EngineBuilderFor(system) ==
    IF system.tex_engine = "Pdftex" /\ system.tex_format = "Latex"
    THEN Some(PdflatexBuilderNew)
    ELSE None

WithSrcDir(b, dir) == [b EXCEPT !.texinputs = Append(@, dir)]

WithBuildDir_Skip(b, dir) == b

WithBuildDir(b, dir) == [b EXCEPT !.cmd.cwd = Some(dir)]

\* SYNCTEX_GZIPPED
WithSynctex(b, use_synctex) ==
    IF use_synctex THEN [b EXCEPT !.cli_options.synctex = Some(<<"1">>)]
    ELSE b

WithShellEscape(b, shell_escape) ==
    IF shell_escape = Some(TRUE)
    THEN [b EXCEPT !.cli_options.shell_escape = TRUE]
    ELSE IF shell_escape = Some(FALSE)
    THEN [b EXCEPT !.cli_options.no_shell_escape = TRUE]
    ELSE b

WithDependencies(b, deps) ==
    IF deps # <<>>
    THEN [b EXCEPT !.cmd.env.TEXINPUTS = Some(Join(deps, ","))]
    ELSE b

\* ArgValue for bool, and for Option of a type passed as `name value`
SetCmdArgBool(value, name, args) ==
    IF value THEN Append(args, name) ELSE args

SetCmdArgOption(value, name, args) ==
    IF value # None THEN args \o <<name, value[1]>> ELSE args

\* the derived Options::apply: the fields in the order of the struct
ApplyOptions(o, args) ==
    LET Flag(field) == NewName("OneDashKebabCase", field, None)
        interaction == <<"i", "n", "t", "e", "r", "a", "c", "t", "i", "o", "n">>
        synctex == <<"s", "y", "n", "c", "t", "e", "x">>
        a1 == SetCmdArgOption(o.interaction, Flag(interaction), args)
        a2 == SetCmdArgBool(o.shell_escape, Flag(ShellEscapeField), a1)
        a3 == SetCmdArgBool(o.no_shell_escape, Flag(NoShellEscapeField), a2)
    IN  SetCmdArgOption(o.synctex, Flag(synctex), a3)

\* dirs::START_FILE, the last argument
StartFile == <<"_start.tex">>

\* PdflatexBuilder::finish
Finish(b) ==
    LET wrapped == [b.cmd EXCEPT !.env.max_print_line = Some(<<"2147483647">>)]
        texinputs == Join(b.texinputs, ":") \o <<Sep(":")>>
        searched == [wrapped EXCEPT !.env.TEXINPUTS = Some(texinputs)]
    IN  [searched EXCEPT
            !.args = Append(ApplyOptions(b.cli_options, @), StartFile)]

\* BuildBuilderUnpacked::get_engine
GetEngine ==
    /\ gstage = "Unpacked"
    /\ LET builder == EngineBuilderFor(gsystem)
           paths == GetDependencyPaths(gdeps)
       IN  IF builder = None \/ paths = None
           THEN /\ gstage' = "Panicked"
                /\ gcmd' = None
           ELSE LET b1 == WithSrcDir(builder[1], SrcDirOf)
                    b2 == WithBuildDir(b1, BuildDirOf(gprofile))
                    \* with_verbosity is a no-op
                    b4 == WithSynctex(b2, gsettings.synctex = Some(TRUE))
                    b5 == WithShellEscape(b4, gsettings.shell_escape)
                    b6 == WithDependencies(b5, paths[1])
                IN  /\ gstage' = "Built"
                    /\ gcmd' = Some(Finish(b6))
    /\ UNCHANGED <<gsystem, gsettings, gprofile, gdeps>>
    /\ UNCHANGED notCommand

(***************************************************************************)
(* Finding the project root                                                *)
(***************************************************************************)
\* PROJECT_CONFIG_FILE, as a link
ProjectConfigFile == Rel(<<"largo.toml">>)

\* the values of std::env::current_dir()
WorkDirs == UNION {[1..n -> {"a", "b"}] : n \in 0..MaxDepth}

\* the directory and its ancestors, up to the filesystem root
Ancestors(dir) == {SubSeq(dir, 1, k) : k \in 0..Len(dir)}

\* the anyhow! error of find, and the result while the loop runs
NotFoundFrom(p) == [kind |-> "Err", path |-> p]
Searching == [kind |-> "None", path |-> <<>>]

\* an iteration that finds the manifest: path.pop(); return Ok
FindFound ==
    /\ wres = Searching
    /\ LET probe == Push(wpath, ProjectConfigFile)
       IN  /\ probe \in wfiles
           /\ wpath' = Pop(probe)
           /\ wres' = [kind |-> "Ok", path |-> Pop(probe)]
    /\ UNCHANGED <<wcwd, wfiles>>
    /\ UNCHANGED notFind

\* an iteration that gives up at once
FindAscend_GiveUp ==
    /\ wres = Searching
    /\ LET probe == Push(wpath, ProjectConfigFile)
       IN  /\ probe \notin wfiles
           /\ Pop(probe) # <<>>
           /\ wpath' = Pop(probe)
           /\ wres' = NotFoundFrom(wcwd)
    /\ UNCHANGED <<wcwd, wfiles>>
    /\ UNCHANGED notFind

\* an iteration that goes on with the parent: path.pop(); path.pop() is true
FindAscend ==
    /\ wres = Searching
    /\ LET probe == Push(wpath, ProjectConfigFile)
       IN  /\ probe \notin wfiles
           /\ Pop(probe) # <<>>
           /\ wpath' = Pop(Pop(probe))
           /\ wres' = wres
    /\ UNCHANGED <<wcwd, wfiles>>
    /\ UNCHANGED notFind

\* the iteration at the filesystem root: path.pop() is false, break
FindFail ==
    /\ wres = Searching
    /\ LET probe == Push(wpath, ProjectConfigFile)
       IN  /\ probe \notin wfiles
           /\ Pop(probe) = <<>>
           /\ wpath' = Pop(Pop(probe))
           /\ wres' = NotFoundFrom(wcwd)
    /\ UNCHANGED <<wcwd, wfiles>>
    /\ UNCHANGED notFind

IdleStream == InitStream /\ verbosity = "Silent"

IdlePath == InitPath /\ root = <<>>

IdleOwned == InitOwned /\ onode = "RootDir" /\ opath = <<>>

IdleSelect ==
    /\ porig = StandardProfiles
    /\ pmap = Some(porig)
    /\ psel = <<>>

\* a manifest with nothing but the project's name in it
EmptyManifest ==
    [default_profile |-> None, profile |-> None,
     settings |-> DefaultProfile.project_settings, supported |-> TRUE]

IdleBuilder ==
    /\ bprofile = None
    /\ bconf = [default_profile |-> "dev"]
    /\ bmanifest = EmptyManifest
    /\ bstage = "Builder"
    /\ bname = None
    /\ bctx = None
    /\ berr = None
    /\ bdisk = {}

IdleClean ==
    /\ cfs0 = {ProjectRoot}
    /\ cmarker = [kind |-> "missing", contents |-> <<>>]
    /\ cprofile = None
    /\ cfs = cfs0
    /\ cchecked = FALSE
    /\ chanded = None
    /\ cres = "none"

IdleFlag ==
    /\ fident = <<"a">>
    /\ frename = None
    /\ fconvention = "TwoDashKebabCase"
    /\ fflag = None

IdleCommand ==
    /\ gsystem = [tex_engine |-> "Pdftex", tex_format |-> "Latex"]
    /\ gsettings = DefaultProfile.project_settings
    /\ gprofile = "dev"
    /\ gdeps = <<>>
    /\ gstage = "Unpacked"
    /\ gcmd = None

IdleFind ==
    /\ wcwd = <<>>
    /\ wfiles = {}
    /\ wpath = <<>>
    /\ wres = Searching

IdleMerge ==
    /\ mtype = "Vec"
    /\ xs = <<<<>>>>
    /\ ys = <<<<>>>>
    /\ xops = <<>>
    /\ yops = <<>>

NextMerge ==
    \/ XMergeLeft
    \/ XMergeRight
    \/ YMergeRight

MergeInit == InitMerge /\ IdleStream /\ IdlePath /\ IdleOwned /\ IdleSelect /\ IdleBuilder /\ IdleClean /\ IdleFlag /\ IdleCommand /\ IdleFind

MergeSpec == MergeInit /\ [][NextMerge]_vars

NextSelect == SelectStep

SelectInit ==
    InitSelect /\ IdleStream /\ IdlePath /\ IdleOwned /\ IdleMerge /\ IdleBuilder /\ IdleClean /\ IdleFlag /\ IdleCommand /\ IdleFind

SelectSpec == SelectInit /\ [][NextSelect]_vars

NextResolve == TryFinish

ResolveInit ==
    InitBuilder /\ IdleStream /\ IdlePath /\ IdleOwned /\ IdleMerge /\ IdleSelect /\ IdleClean /\ IdleFlag /\ IdleCommand /\ IdleFind

ResolveSpec == ResolveInit /\ [][NextResolve]_vars

NextBuild ==
    \/ TryFinish
    \/ RunBuild
    \/ StreamPollInit
    \/ StreamStartEngineOk
    \/ StreamStartEngineErr

\* builds of manifests that set no project-level settings
BuildInit ==
    /\ InitBuilderOver({None}, {EmptyManifest.settings})
    /\ IdleStream /\ IdlePath /\ IdleOwned /\ IdleMerge /\ IdleSelect /\ IdleClean /\ IdleFlag /\ IdleCommand /\ IdleFind

BuildSpec == BuildInit /\ [][NextBuild]_vars

CleanInit ==
    /\ cfs0 \in Filesystems
    /\ cmarker \in {m \in Markers :
                       TargetOf(ProjectRoot) \in cfs0 \/ m.kind = "missing"}
    /\ cprofile \in Opt(CleanProfiles)
    /\ cfs = cfs0
    /\ cchecked = FALSE
    /\ chanded = None
    /\ cres = "none"
    /\ IdleStream /\ IdlePath /\ IdleOwned /\ IdleMerge /\ IdleSelect /\ IdleBuilder /\ IdleFlag /\ IdleCommand /\ IdleFind

CleanSpec == CleanInit /\ [][Clean]_vars

FlagInit ==
    /\ fident \in FieldNames
    /\ frename \in Opt({<<"-", "8", "b", "i", "t">>})
    /\ fconvention \in {"OneDashKebabCase", "TwoDashKebabCase"}
    /\ fflag = None
    /\ IdleStream /\ IdlePath /\ IdleOwned /\ IdleMerge /\ IdleSelect /\ IdleBuilder
    /\ IdleClean /\ IdleCommand /\ IdleFind

FlagSpec == FlagInit /\ [][EmitField]_vars

CommandInit ==
    /\ gsystem \in SystemSettingsValues
    /\ gsettings \in {ps \in ProjectSettingsValues : ps.output_format = None}
    /\ gprofile \in ProfileNames
    /\ gdeps \in Dependencies
    /\ gstage = "Unpacked"
    /\ gcmd = None
    /\ IdleStream /\ IdlePath /\ IdleOwned /\ IdleMerge /\ IdleSelect /\ IdleBuilder
    /\ IdleClean /\ IdleFlag /\ IdleFind

CommandSpec == CommandInit /\ [][GetEngine]_vars

NextFind ==
    \/ FindFound
    \/ FindAscend
    \/ FindFail

\* a manifest may be in any of the ancestors, in a directory below the
\* current one, and in one that is not on the way to the root
FindInit ==
    /\ wcwd \in WorkDirs
    /\ wfiles \in {{Push(d, ProjectConfigFile) : d \in ds} :
                     ds \in SUBSET (Ancestors(wcwd)
                                    \cup {Append(wcwd, "sub"), <<"z">>})}
    /\ wpath = wcwd
    /\ wres = Searching
    /\ IdleStream /\ IdlePath /\ IdleOwned /\ IdleMerge /\ IdleSelect /\ IdleBuilder
    /\ IdleClean /\ IdleFlag /\ IdleCommand

\* the loop of find is not suspended: it runs in one thread to its return
FindSpec == FindInit /\ [][NextFind]_vars /\ WF_vars(NextFind)

NextOwned ==
    \/ ExtendBuf
    \/ CloneBuf

OwnedInit == InitOwned /\ IdleStream /\ IdlePath /\ IdleMerge /\ IdleSelect /\ IdleBuilder /\ IdleClean /\ IdleFlag /\ IdleCommand /\ IdleFind

OwnedSpec == OwnedInit /\ [][NextOwned]_vars

NextPath ==
    \/ ExtendRef
    \/ DropRef
    \/ PropagateError

PathInit == InitPath /\ IdleStream /\ IdleOwned /\ IdleMerge /\ IdleSelect /\ IdleBuilder /\ IdleClean /\ IdleFlag /\ IdleCommand /\ IdleFind

PathSpec == PathInit /\ [][NextPath]_vars

Init == InitStream /\ IdlePath /\ IdleOwned /\ IdleMerge /\ IdleSelect /\ IdleBuilder /\ IdleClean /\ IdleFlag /\ IdleCommand /\ IdleFind

Next ==
    \/ EngineWrite
    \/ EngineWriteInvalid
    \/ EngineClose
    \/ PollInit
    \/ PollStartEngineOk
    \/ PollStartEngineErr
    \/ PollEngineLineError
    \/ PollEngineLineOther
    \/ PollEngineReadErr
    \/ PollEnginePending
    \/ PollEngineEnd
    \/ PollExit

Spec == Init /\ [][Next]_vars

LiveNext ==
    \/ EngineWriteShort
    \/ EngineWriteInvalid
    \/ EngineClose
    \/ PollInit
    \/ PollStartEngineOk
    \/ PollStartEngineErr
    \/ PollEngineLineError
    \/ PollEngineLineOther
    \/ PollEngineReadErr
    \/ PollEnginePending
    \/ PollEngineEnd
    \/ PollExit

\* the consumer is polled again whenever it may poll; whether the stream
\* goes on depends on a line only through its being classified or not
LiveSpec == Init /\ [][LiveNext]_vars /\ WF_vars(Poll)
(***************************************************************************)
(* Properties of the build event stream                                    *)
(***************************************************************************)
Indices(seq) == 1..Len(seq)

Has(kind) == \E i \in Indices(out) : out[i].kind = kind

Count(kind) == Cardinality({i \in Indices(out) : out[i].kind = kind})

\* the lines the line source has taken out of the pipe so far
Delivered == SubSeq(written, 1, Len(written) - Len(pipe))

\* a line begins with the two characters "! "
Marked(l) == Len(l) >= 2 /\ l[1] = "!" /\ l[2] = " "

\* the line without its first two characters
Stripped(l) == [i \in 1..(Len(l) - 2) |-> l[i + 2]]

RECURSIVE MarkedMessages(_)
\* of a sequence of pipe items, the stripped marked lines, in order
MarkedMessages(items) ==
    IF items = <<>> THEN <<>>
    ELSE (IF Head(items).ok /\ Marked(Head(items).text)
          THEN <<Stripped(Head(items).text)>>
          ELSE <<>>) \o MarkedMessages(Tail(items))

\* the engine events the stream has yielded, in order
EngineEvents == SelectSeq(out, LAMBDA it : it.kind = "Error")

\* C1: the yielded items are ordered: Compiling is the first item and only
\* the first, Running comes after Compiling, every EngineInfo event comes
\* after Running, and Finished comes after Running and every EngineInfo.
C1_EventOrder ==
    \A i \in Indices(out) :
        /\ (out[i].kind = "Compiling") <=> (i = 1)
        /\ out[i].kind = "Running" =>
             \E j \in 1..(i - 1) : out[j].kind = "Compiling"
        /\ out[i].kind = "Error" =>
             \E j \in 1..(i - 1) : out[j].kind = "Running"
        /\ out[i].kind = "Finished" =>
             /\ \E j \in 1..(i - 1) : out[j].kind = "Running"
             /\ \A j \in Indices(out) : out[j].kind = "Error" => j < i

C1_Witness ==
    /\ Len(out) >= 4
    /\ out[1].kind = "Compiling"
    /\ out[2].kind = "Running"
    /\ out[3].kind = "Error"
    /\ out[Len(out)].kind = "Finished"

\* C2: when spawning the engine fails, the stream yields exactly one
\* failure item and nothing after it: a failure item is the last item.
C2_FailureTerminal ==
    \A i \in Indices(out) : out[i].kind = "Failure" => i = Len(out)

\* C3: Engine::run is called at most once per event stream.
C3_SpawnAtMostOnce == spawns <= 1

\* C4: the stream yields Finished only after a successful spawn and only
\* once; once Finished is yielded the state is Exit, Finished stays the last
\* item, and every later poll returns end-of-stream; a stream at Exit has
\* yielded its Finished.
C4_FinishedOnce ==
    /\ Has("Finished") =>
         /\ Count("Finished") = 1
         /\ Count("Running") = 1
         /\ state = "Exit"
         /\ out[Len(out)].kind = "Finished"
         /\ endPolls > 0 => last = "End"
    /\ state = "Exit" => Has("Finished")
    /\ last = "End" => state = "Exit"

C4_Witness == Has("Finished") /\ endPolls >= 2 /\ last = "End"

C6_FinishedReached ==
    /\ [](last = "Pending" => woken)
    /\ [][(state = "EngineRunning" /\ state' # "EngineRunning") =>
            (state' = "Exit" /\ out' = Append(out, Finished))]_vars
    /\ (/\ state = "EngineRunning"
        /\ child = "closed"
        /\ ~panicked
        /\ \A i \in Indices(pipe) : pipe[i].ok)
          ~> (Has("Finished") /\ out[Len(out)].kind = "Finished")
    /\ Has("Finished") ~> (last = "End")

C6_Witness ==
    /\ last = "End"
    /\ Len(classified) = 2
    /\ Len(EngineEvents) = 1

\* C7: a line beginning with "! " classifies to Error{line: 0, message: the
\* line without those two characters}; every other line classifies to
\* nothing.
C7_ClassifierRule ==
    \A i \in Indices(classified) :
        LET l == classified[i].text
            r == classified[i].info
        IN  IF Marked(l)
            THEN r.kind = "Error" /\ r.line = 0 /\ <<"!", " ">> \o r.msg = l
            ELSE r = NoInfo

C7_Witness ==
    /\ \E i \in Indices(classified) :
         classified[i].info.kind = "Error" /\ classified[i].info.msg # <<>>
    /\ \E i \in Indices(classified) :
         classified[i].text = <<" ", "!", " ">> /\ classified[i].info = NoInfo

\* C8: in the noisy verbosity every line read from the engine is emitted
\* verbatim as an event of the stream, in output order.
C8_NoisyVerbatim ==
    verbosity = "Noisy" =>
        /\ Len(EngineEvents) = Len(classified)
        /\ \A i \in Indices(EngineEvents) :
             EngineEvents[i].msg = classified[i].text
(***************************************************************************)
(* Properties of the scoped paths                                          *)
(***************************************************************************)
RECURSIVE LiveLinks(_)
\* the link segments of the live PathRefs, oldest first, one after another
LiveLinks(rs) ==
    IF rs = <<>> THEN <<>> ELSE Head(rs).seg.comps \o LiveLinks(Tail(rs))

\* C9: after borrowed extensions released in reverse order of creation, on
\* a normal or an early exit, the path equals the path before the first
\* extension.
C9_PathRestored == refs = <<>> => path = root

\* C10: at every moment the path in the buffer is the root path followed
\* by the link segments of the extensions not yet released, in creation
\* order.
C10_PathIsRootPlusLiveLinks == path = root \o LiveLinks(refs)

\* Both hold as long as every link pushed was one normal component.
\* the edge an owned extension followed is one the schema declares
Declared(t) ==
    \/ \E e \in FixedEdges :
         e.parent = t.parent /\ e.child = t.child /\ e.seg = t.seg
    \/ \E e \in ParamEdges :
         e.parent = t.parent /\ e.child = t.child /\ t.seg \in LinkValues

\* C11: an owned extension along a declared edge yields the child node's
\* path, whose value is the parent's value with the link's segment appended
\* as its last component(s); every typed path was reached from a root by
\* declared edges only.
C11_OwnedExtendAppends ==
    /\ \A i \in Indices(otrail) : Declared(otrail[i])
    /\ otrail # <<>> =>
         LET t == otrail[Len(otrail)]
         IN  /\ onode = t.child
             /\ opath = t.from \o t.seg.comps

\* the same for link values that are relative paths
OwnedExtendAppendsRelative ==
    (\A i \in Indices(otrail) : ~otrail[i].seg.abs) => C11_OwnedExtendAppends

\* the fields of the structs that derive Merge, by kind
OptionalFields(t) ==
    CASE t = "S" -> {"b"}
      [] t = "ProjectSettings" -> {"output_format", "shell_escape", "synctex"}
      [] OTHER -> {}

ScalarFields(t) == IF t = "S" THEN {"a"} ELSE {}

\* the positions of xs at which a merge of the given direction was applied
Applied(dir) == {i \in Indices(xops) : xops[i] = dir}

\* C12: after a.merge_left(b) every optional field holds a's value when a
\* had one and b's value otherwise, and every scalar field holds a's value.
C12_MergeLeftKeepsSelf ==
    \A i \in Applied("left") :
        LET a == xs[i]
            b == ys[1]
            r == xs[i + 1]
        IN  /\ \A f \in OptionalFields(mtype) :
                 r[f] = IF a[f] # None THEN a[f] ELSE b[f]
            /\ \A f \in ScalarFields(mtype) : r[f] = a[f]

\* merge_left_works1: a has no value where b has one, and another scalar
C12_Witness ==
    /\ mtype = "S"
    /\ xops = <<"left">>
    /\ xs[1].b = None /\ ys[1].b # None /\ xs[1].a # ys[1].a
    /\ xs[2] = [a |-> xs[1].a, b |-> ys[1].b]

\* C13: after a.merge_right(b) every optional field holds b's value where b
\* has one and a's value otherwise, and every scalar field holds b's value.
C13_MergeRightPrefersOther ==
    \A i \in Applied("right") :
        LET a == xs[i]
            b == ys[1]
            r == xs[i + 1]
        IN  /\ \A f \in OptionalFields(mtype) :
                 r[f] = IF b[f] # None THEN b[f] ELSE a[f]
            /\ \A f \in ScalarFields(mtype) : r[f] = b[f]

\* one field where both have a value, one where only a has
C13_Witness ==
    /\ mtype = "ProjectSettings"
    /\ xops = <<"right">>
    /\ xs[1].shell_escape = Some(TRUE) /\ ys[1].shell_escape = Some(FALSE)
    /\ xs[1].synctex = Some(TRUE) /\ ys[1].synctex = None
    /\ xs[2].shell_escape = Some(FALSE) /\ xs[2].synctex = Some(TRUE)

\* a second merge_left with the same value changes nothing
LeftTwiceSame ==
    \A i \in Applied("left") :
        (i + 1) \in Applied("left") => xs[i + 2] = xs[i + 1]

\* C14 as stated: a.merge_left(b).merge_left(b) = a.merge_left(b) for
\* values of every type implementing Merge, lists included.
C14_LeftIdempotent == LeftTwiceSame

\* C14: a.merge_left(b).merge_left(b) = a.merge_left(b) for optionals,
\* scalars, maps and structs built from them; merging a list appends it
\* again.
C14_LeftIdempotentExceptLists == mtype # "Vec" => LeftTwiceSame

\* two profile maps, the first merge fills in a key and a field
C14_Witness ==
    /\ mtype = "Profiles"
    /\ xops = <<"left", "left">>
    /\ xs[2] # xs[1]
    /\ \E k \in DOMAIN xs[1] \cap DOMAIN ys[1] : xs[2][k] # xs[1][k]
    /\ \E k \in DOMAIN ys[1] : k \notin DOMAIN xs[1]
    /\ xs[3] = xs[2]

\* a.merge_left(b) and b.merge_right(a) have both been computed
BothMerged == xops # <<>> /\ xops[1] = "left" /\ yops = <<"right">>

\* C15: a.merge_left(b) = b.merge_right(a) for all values a and b of a
\* mergeable type, maps of profiles included.
C15_MergeDual == BothMerged => xs[2] = ys[2]

\* the same for the types other than Vec
MergeDualExceptLists == mtype # "Vec" => C15_MergeDual

\* the profile map written in the manifest, and its keys
ManifestMap == IF bmanifest.profile = None THEN <<>> ELSE bmanifest.profile[1]

ManifestKeys == DOMAIN ManifestMap

\* the name the build was resolved for
Chosen == bname[1]

\* C16 as stated: the profile built is the caller's override, else the
\* project's default profile when the manifest gives one, else the global
\* default profile.
C16_ProfileChoiceOrder ==
    bname # None =>
        Chosen = IF bprofile # None THEN bprofile[1]
                 ELSE IF bmanifest.default_profile # None
                      THEN bmanifest.default_profile[1]
                      ELSE bconf.default_profile

\* C16: the profile built is the caller's override when one is given, else
\* the global configuration's default profile, whatever the manifest says.
C16_OverrideElseGlobalDefault ==
    /\ bname # None =>
         Chosen = IF bprofile # None THEN bprofile[1]
                  ELSE bconf.default_profile
    /\ bctx # None => bctx[1].profile_name = Chosen

\* no override, a default profile in the manifest, another one globally
C16_Witness ==
    /\ bprofile = None
    /\ bmanifest.default_profile = Some("release")
    /\ bconf.default_profile = "custom"
    /\ bstage = "Runner"
    /\ bctx # None /\ bctx[1].profile_name = "custom"

\* the resolution failed with profile-not-found for the chosen name and
\* produced nothing
FailedNotFound ==
    /\ bstage = "Failed"
    /\ berr = Some(NotFound(Chosen))
    /\ bctx = None

\* C17 as stated: a chosen name that is not a key of the project's profile
\* map makes the resolution fail with profile-not-found for that name.
C17_AbsentProfileFails ==
    (bname # None /\ Chosen \notin ManifestKeys) => FailedNotFound

\* C17: a chosen name that is neither a key of the project's profile map
\* nor a standard profile (dev, release) makes the resolution fail with
\* profile-not-found for that name, and nothing is produced.
C17_UnknownProfileFails ==
    (bname # None /\ Chosen \notin ManifestKeys \cup {"dev", "release"})
        => FailedNotFound

\* the manifest has profiles, but not the one asked for
C17_Witness ==
    /\ bname = Some("custom")
    /\ ManifestKeys = {"dev", "release"}
    /\ FailedNotFound
    /\ berr[1].name = "custom"

\* a further selection of the name on the map would find a profile
Selectable(k) == pmap # None /\ k \in DOMAIN pmap[1]

\* C18 as stated: after a profile is selected, selecting the same name
\* again on that map finds nothing, and every other profile of the map can
\* still be selected.
C18_OthersStaySelectable ==
    \A i \in Indices(psel) :
        psel[i].result # None =>
            /\ ~Selectable(psel[i].name)
            /\ \A k \in DOMAIN porig \ {psel[i].name} : Selectable(k)

\* C18: selecting a profile by name consumes the map: the profile under
\* that name is returned if there is one, and no selection, by that name or
\* another, can be made on the map afterwards.
C18_SelectConsumesMap ==
    psel # <<>> =>
        /\ Len(psel) = 1
        /\ psel[1].result = IF psel[1].name \in DOMAIN porig
                            THEN Some(porig[psel[1].name]) ELSE None
        /\ \A k \in ProfileNames : ~Selectable(k)

\* a profile was taken out of a map that held others
C18_Witness ==
    /\ psel # <<>>
    /\ psel[1].result # None
    /\ DOMAIN porig \ {psel[1].name} # {}
    /\ pmap = None

\* the settings of the profile the lookup finds for the chosen name
SelectedSettings ==
    IF Chosen \in ManifestKeys
    THEN ManifestMap[Chosen].project_settings
    ELSE DefaultProfile.project_settings

\* C19: each resolved project-settings field is the selected profile's
\* value when the profile sets the field and the project-level value
\* otherwise.
C19_ProfileWins ==
    bctx # None =>
        \A f \in OptionalFields("ProjectSettings") :
            bctx[1].project_settings[f] =
                IF SelectedSettings[f] # None
                THEN SelectedSettings[f] ELSE bmanifest.settings[f]

\* the profile overrides two fields the project sets and leaves one alone
C19_Witness ==
    /\ bctx # None
    /\ Chosen \in ManifestKeys
    /\ bmanifest.settings =
         [output_format |-> Some("pdf"), shell_escape |-> Some(TRUE),
          synctex |-> Some(FALSE)]
    /\ SelectedSettings =
         [output_format |-> Some("dvi"), shell_escape |-> None,
          synctex |-> Some(TRUE)]
    /\ bctx[1].project_settings =
         [output_format |-> Some("dvi"), shell_escape |-> Some(TRUE),
          synctex |-> Some(TRUE)]

\* C20: when the profile lookup, the creation of the build directory or
\* the writing of the start file fails, the caller gets an error and no
\* engine is spawned; an engine is spawned only after all three succeeded.
C20_NoSpawnAfterFailure ==
    /\ (bname # None /\ Chosen \notin DOMAIN LookupProfiles(ParseManifest(bmanifest)))
         => berr # None
    /\ berr # None =>
         /\ bstage = "Failed"
         /\ spawns = 0 /\ child = "none" /\ state = "Init"
    /\ spawns > 0 =>
         /\ berr = None
         /\ {"build_dir", "start_file"} \subseteq bdisk

\* the start file could not be written
C20_Witness ==
    /\ bstage = "Failed"
    /\ berr # None /\ berr[1].name = "write_start_file"
    /\ "build_dir" \in bdisk
    /\ spawns = 0

\* the marker of the target directory carries the signature
GoodMarker == cmarker.kind = "file" /\ SignatureMatches(cmarker.contents)

\* clean refuses a target directory whose marker is missing, unreadable or
\* wrong, and removes nothing
CleanRefusesBadMarker ==
    (cres # "none" /\ TargetOf(ProjectRoot) \in cfs0 /\ ~GoodMarker)
        => (cres = "err" /\ cfs = cfs0)

\* C21: clean returns an error and removes nothing when the target
\* directory exists and its marker is missing, unreadable or without the
\* signature; a directory is removed only after the signature check passed.
C21_CleanOnlyAfterSignature ==
    /\ CleanRefusesBadMarker
    /\ cfs # cfs0 => cchecked

\* the path handed to deletion names the target directory or one below it
HandedBelowTarget ==
    chanded # None =>
        LET d == Walk(cfs0, <<>>, chanded[1])
        IN  d # None => IsPrefix(TargetOf(ProjectRoot), d[1])

\* C28: whatever profile name is passed, the directory handed to recursive
\* deletion is the target directory or a directory below it.
C28_CleanStaysInTarget ==
    /\ HandedBelowTarget
    /\ \A d \in cfs0 \ cfs : IsPrefix(TargetOf(ProjectRoot), d)

\* the same for profile names that are one normal component
CleanStaysInTargetForSimpleNames ==
    (cprofile # None /\ IsSimple(cprofile[1]) /\ cprofile[1] # Rel(<<"..">>))
        => C28_CleanStaysInTarget

\* C29: releasing a borrowed extension removes exactly what the extension
\* appended: the path after the release equals the path before that
\* extension, whatever value the link had.
C29_ReleaseUndoesExtension ==
    [][(refs # <<>> /\ refs' = SubSeq(refs, 1, Len(refs) - 1))
          => path' = refs[Len(refs)].from]_vars

\* kebab case of a snake case name: every underscore is a dash
Kebab(name) == [i \in 1..Len(name) |-> IF name[i] = "_" THEN "-" ELSE name[i]]

Dashes(conv) == IF conv = "OneDashKebabCase" THEN <<"-">> ELSE <<"-", "-">>

\* C27: the flag of a field without rename is the field's name in kebab
\* case (every underscore replaced by a dash) after one dash under the
\* one-dash convention and two dashes under the two-dash convention.
C27_FlagIsKebabCase ==
    (fflag # None /\ frename = None)
        => fflag[1] = Dashes(fconvention) \o Kebab(fident)

\* the flag is the leading dashes followed by the field's name as it is
FlagKeepsFieldName ==
    (fflag # None /\ frename = None)
        => fflag[1] = Dashes(fconvention) \o fident

(***************************************************************************)
(* Properties of the command of the engine                                 *)
(***************************************************************************)
\* the path is one of the entries of the command's TEXINPUTS
Listed(p) ==
    /\ gcmd[1].env.TEXINPUTS # None
    /\ \E i \in 1..Len(gcmd[1].env.TEXINPUTS[1]) :
         gcmd[1].env.TEXINPUTS[1][i] = Entry(p)

\* the command has the argument
Carries(arg) == \E i \in 1..Len(gcmd[1].args) : gcmd[1].args[i] = arg

\* C22: every resolved dependency path is listed in TEXINPUTS of the
\* command the engine finally runs.
C22_DependenciesListed ==
    gstage = "Built" => \A i \in 1..Len(gdeps) : Listed(gdeps[i].path)

\* C23: the working directory of the built command is the project's source
\* directory.
C23_WorkdirIsSrcDir ==
    gstage = "Built" => gcmd[1].cwd = Some(SrcDirOf)

\* C23, as the code has it: the working directory of the built command is
\* the build directory of the profile, target/<profile>/build, where the
\* start file passed as the last argument is written; the source directory
\* is an entry of TEXINPUTS instead.
C23_WorkdirIsBuildDir ==
    gstage = "Built" =>
        /\ gcmd[1].cwd = Some(<<"target", gprofile, "build">>)
        /\ Listed(<<"src">>)
        /\ gcmd[1].args[Len(gcmd[1].args)] = StartFile

C23_Witness ==
    /\ gstage = "Built"
    /\ gprofile = "custom"
    /\ gcmd[1].cwd = Some(<<"target", "custom", "build">>)

\* every dependency is one get_dependency_paths knows how to resolve
DepsResolvable ==
    \A i \in 1..Len(gdeps) : gdeps[i].kind = "Path" /\ ~gdeps[i].largo

\* C24: for every TeX engine and TeX format a manifest can carry, building
\* the command completes and returns a command.
C24_CommandAlwaysBuilt ==
    (gstage # "Unpacked" /\ DepsResolvable) => (gstage = "Built" /\ gcmd # None)

\* the one pair of engine and format for which a command is built
CommandBuiltForPdflatex ==
    (gstage # "Unpacked" /\ DepsResolvable)
        => (gstage = "Built"
              <=> gsystem = [tex_engine |-> "Pdftex", tex_format |-> "Latex"])

\* the flags by which pdftex enables and disables shell escape
ShellEscapeFlag ==
    <<"-", "s", "h", "e", "l", "l", "-", "e", "s", "c", "a", "p", "e">>
NoShellEscapeFlag == <<"-", "n", "o", "-", "s", "h", "e", "l", "l", "-",
                       "e", "s", "c", "a", "p", "e">>

\* C26: the built command carries the enable flag and not the disable flag
\* when shell-escape is set and true, the disable flag and not the enable
\* flag when it is set and false, neither when it is absent, and never both.
C26_ShellEscapeTriState ==
    gstage = "Built" =>
        /\ Carries(ShellEscapeFlag) <=> gsettings.shell_escape = Some(TRUE)
        /\ Carries(NoShellEscapeFlag) <=> gsettings.shell_escape = Some(FALSE)
        /\ ~(Carries(ShellEscapeFlag) /\ Carries(NoShellEscapeFlag))

\* the same with the arguments the command is in fact given for the two
\* fields: their names after one dash, underscores kept
ShellEscapeTriStateOfFields ==
    LET enable == <<"-">> \o ShellEscapeField
        disable == <<"-">> \o NoShellEscapeField
    IN  gstage = "Built" =>
          /\ Carries(enable) <=> gsettings.shell_escape = Some(TRUE)
          /\ Carries(disable) <=> gsettings.shell_escape = Some(FALSE)
          /\ ~(Carries(enable) /\ Carries(disable))

\* C25: no failure of preparing a build is swallowed: when run has
\* returned and the cache marker of the target directory could not be
\* created, the caller has an error.
C25_NoErrorSwallowed ==
    (bstage \in {"Streaming", "Failed"} /\ "CACHEDIR.TAG" \notin bdisk)
        => berr # None

\* the failures after the target directory do reach the caller: run hands
\* out a stream only when the build directory and the start file were made
LaterPrepareErrorsReported ==
    bstage \in {"Streaming", "Failed"} =>
        /\ bstage = "Failed" <=> berr # None
        /\ berr = None => {"build_dir", "start_file"} \subseteq bdisk

(***************************************************************************)
(* Properties of the search for the project root                           *)
(***************************************************************************)
\* the directories among the current one and its ancestors with a manifest
Projects == {d \in Ancestors(wcwd) : Append(d, "largo.toml") \in wfiles}

\* the nearest of them
Nearest == CHOOSE d \in Projects : \A e \in Projects : Len(e) <= Len(d)

\* the search returned what it should
FindResultRight ==
    wres # Searching =>
        IF Projects = {} THEN wres.kind = "Err"
        ELSE wres = [kind |-> "Ok", path |-> Nearest]

\* C30: the search for the project root terminates from every starting
\* directory; it returns the nearest directory among the current one and its
\* ancestors that contains largo.toml, and an error exactly when none does.
C30_FindTerminatesWithNearest ==
    /\ []FindResultRight
    /\ <>(wres # Searching)

C30_Witness ==
    /\ wres.kind = "Ok"
    /\ Len(wcwd) = MaxDepth
    /\ Len(wres.path) = 1
    /\ Cardinality(Projects) > 1

PathRestoredForSimpleLinks ==
    simple => C9_PathRestored /\ C10_PathIsRootPlusLiveLinks
====
